---- MODULE Spec2Model ----
(***************************************************************************)
(* ssh-pool: the remote command / transfer engine.                         *)
(*                                                                         *)
(*   lib/connection.js       Connection: buildSSHCommand, run, copy,       *)
(*                           copyViaRsync, generateScpCommands, copyViaScp *)
(*   lib/connection-pool.js  ConnectionPool: run, copy (Promise.all)       *)
(*                                                                         *)
(* A JavaScript string is modelled as a sequence of one-character strings, *)
(* so that prefix tests, replacements and joins are computed character by  *)
(* character as the code computes them.                                    *)
(***************************************************************************)
EXTENDS Naturals, Integers, Sequences, FiniteSets, TLC

(***************************************************************************)
(* Bounds of the model.                                                    *)
(***************************************************************************)
\* A command text is a concatenation of at most MaxFrags fragments.
MaxFrags == 3
\* Number of connections held by the pool.
MaxConns == 2

(***************************************************************************)
(* String literals.                                                        *)
(***************************************************************************)
S_sudo == <<"s", "u", "d", "o">>
S_ssh == <<"s", "s", "h">>
S_tt == <<"-", "t", "t">>
S_sp == <<" ">>
S_dq == <<"\"">>
S_bs == <<"\\">>
S_ls == <<"l", "s">>
S_bob == <<"b", "o", "b">>
S_sudo_u == <<"s", "u", "d", "o", " ", "-", "u", " ">>
S_p == <<"-", "p">>
S_P == <<"-", "P">>
S_i == <<"-", "i">>
S_o == <<"-", "o">>
S_strict == <<"S", "t", "r", "i", "c", "t", "H", "o", "s", "t", "K", "e", "y",
              "C", "h", "e", "c", "k", "i", "n", "g", "=">>
S_at == <<"@">>
S_colon == <<":">>
S_and == <<" ", "&", "&", " ">>
S_cd == <<"c", "d">>
S_tar == <<"t", "a", "r">>
S_czf == <<"-", "c", "z", "f">>
S_xzf == <<"-", "x", "z", "f">>
S_strip == <<"-", "-", "s", "t", "r", "i", "p", "-", "c", "o", "m", "p", "o",
             "n", "e", "n", "t", "s">>
S_one == <<"1">>
S_mkdir == <<"m", "k", "d", "i", "r">>
S_rm == <<"r", "m">>
S_scp == <<"s", "c", "p">>
S_rsync == <<"r", "s", "y", "n", "c">>
S_az == <<"-", "a", "z">>
S_e == <<"-", "e">>
S_exclude == <<"-", "-", "e", "x", "c", "l", "u", "d", "e">>
S_tmp == <<".", "t", "m", "p", ".", "t", "a", "r", ".", "g", "z">>
S_dot == <<".">>
S_slash == <<"/">>
S_dslash == <<"/", "/">>

\* The JavaScript value undefined: no string equals it, since every element
\* of a string is a single character.
Undef == <<"undefined">>

(***************************************************************************)
(* String primitives of JavaScript.                                        *)
(***************************************************************************)
\* s.slice(from - 1, to) with 1-based inclusive positions.
Slice(s, from, to) == [k \in 1..(IF to >= from THEN to - from + 1 ELSE 0) |-> s[from + k - 1]]

\* Whether pat occurs in s at position p.
MatchAt(s, pat, p) ==
  /\ p >= 1
  /\ p + Len(pat) - 1 <= Len(s)
  /\ \A k \in 1..Len(pat) : s[p + k - 1] = pat[k]

\* The regular expression /^pat/ tested on s.
StartsWith(s, pat) == MatchAt(s, pat, 1)

\* s.indexOf(pat) + 1, and 0 when pat does not occur.
IndexOf(s, pat) ==
  LET hits == {p \in 1..(Len(s) - Len(pat) + 1) : MatchAt(s, pat, p)}
  IN IF hits = {} THEN 0
     ELSE CHOOSE p \in hits : \A q \in hits : p <= q

\* s.replace(pat, rep) with a string pattern: the first occurrence only.
ReplaceFirst(s, pat, rep) ==
  LET p == IndexOf(s, pat)
  IN IF p = 0 THEN s
     ELSE Slice(s, 1, p - 1) \o rep \o Slice(s, p + Len(pat), Len(s))

\* s.replace(/ch/g, rep) for a one-character pattern: every occurrence.
RECURSIVE ReplaceAllChar(_, _, _)
ReplaceAllChar(s, ch, rep) ==
  IF s = <<>> THEN <<>>
  ELSE (IF Head(s) = ch THEN rep ELSE <<Head(s)>>) \o ReplaceAllChar(Tail(s), ch, rep)

\* parts.join(sep)
RECURSIVE Join(_, _)
Join(parts, sep) ==
  IF parts = <<>> THEN <<>>
  ELSE IF Len(parts) = 1 THEN parts[1]
  ELSE parts[1] \o sep \o Join(Tail(parts), sep)

\* s.split(ch) for a one-character separator.
RECURSIVE SplitAcc(_, _, _)
SplitAcc(s, ch, cur) ==
  IF s = <<>> THEN <<cur>>
  ELSE IF Head(s) = ch THEN <<cur>> \o SplitAcc(Tail(s), ch, <<>>)
  ELSE SplitAcc(Tail(s), ch, Append(cur, Head(s)))

Split(s, ch) == SplitAcc(s, ch, <<>>)

(***************************************************************************)
(* Node's path module (POSIX flavour), as used by generateScpCommands.     *)
(***************************************************************************)
\* Positions of p holding a slash that is followed, somewhere, by a
\* character that is no slash (position 1 excluded, as in Node's scan).
DirnameCuts(p) ==
  {i \in 2..Len(p) : p[i] = "/" /\ \E j \in (i + 1)..Len(p) : p[j] # "/"}

\* path.dirname(p)
dirname(p) ==
  IF p = <<>> THEN S_dot
  ELSE LET hasRoot == p[1] = "/"
           cuts == DirnameCuts(p)
       IN IF cuts = {} THEN (IF hasRoot THEN S_slash ELSE S_dot)
          ELSE LET end == CHOOSE i \in cuts : \A j \in cuts : j <= i
               IN IF hasRoot /\ end = 2 THEN S_dslash
                  ELSE Slice(p, 1, end - 1)

\* path.basename(p): the last segment, trailing slashes ignored.
basename(p) ==
  LET solid == {i \in 1..Len(p) : p[i] # "/"}
  IN IF solid = {} THEN <<>>
     ELSE LET last == CHOOSE i \in solid : \A j \in solid : j <= i
              slashes == {i \in 1..last : p[i] = "/"}
              first == IF slashes = {} THEN 1
                       ELSE (CHOOSE i \in slashes : \A j \in slashes : j <= i) + 1
          IN Slice(p, first, last)

(***************************************************************************)
(* lib/util.js                                                             *)
(***************************************************************************)
\* The characters matched by \w.
WordChars ==
  {"a", "b", "c", "d", "e", "f", "g", "h", "i", "j", "k", "l", "m", "n", "o",
   "p", "q", "r", "s", "t", "u", "v", "w", "x", "y", "z",
   "A", "B", "C", "D", "E", "F", "G", "H", "I", "J", "K", "L", "M", "N", "O",
   "P", "Q", "R", "S", "T", "U", "V", "W", "X", "Y", "Z",
   "0", "1", "2", "3", "4", "5", "6", "7", "8", "9", "_"}

\* The characters U+2028 and U+2029, each written as one element of a text.
LineSeparator == "U+2028"
ParagraphSeparator == "U+2029"

\* The characters "." does not match in a regular expression: the four line
\* terminators.
LineTerminators == {"\n", "\r", LineSeparator, ParagraphSeparator}

\* util.resolveMsysGitPath(path): c:\x\y becomes /c/x/y, anything else is
\* returned unchanged.
resolveMsysGitPath(path) ==
  IF /\ Len(path) >= 3
     /\ path[1] \in WordChars
     /\ path[2] = ":"
     /\ path[3] = "\\"
     /\ \A k \in 4..Len(path) : path[k] \notin LineTerminators
  THEN S_slash \o <<path[1]>> \o S_slash
         \o ReplaceAllChar(Slice(path, 4, Len(path)), "\\", S_slash)
  ELSE path

(***************************************************************************)
(* lib/remote.js (the endpoint formatter)                                  *)
(***************************************************************************)
\* remote.format(endpoint): "user@host"; the port is not part of it.
format(endpoint) == endpoint.user \o S_at \o endpoint.host

(***************************************************************************)
(* lib/connection.js                                                       *)
(***************************************************************************)
\* JavaScript truthiness of an optional string.
Truthy(x) == x # Undef /\ x # <<>>

\* buildSSHArgs(options): the flags derived once per connection.
buildSSHArgs(options) ==
  (IF Truthy(options.port) THEN <<S_p, options.port>> ELSE <<>>)
    \o (IF Truthy(options.key) THEN <<S_i, options.key>> ELSE <<>>)
    \o (IF Truthy(options.strict) THEN <<S_o, S_strict \o options.strict>> ELSE <<>>)

\* new Connection(options), options.remote given as an endpoint object.
Connection(options) ==
  [options |-> options,
   remote |-> options.remote,
   sshArgs |-> buildSSHArgs([key |-> options.key,
                             port |-> options.remote.port,
                             strict |-> options.strict])]

\* Variant: the pattern without its anchor, /sudo/.
isSudoUnanchored(command) == IndexOf(command, S_sudo) # 0

\* /^sudo/.exec(command)
isSudo(command) == StartsWith(command, S_sudo)

\* The ssh arguments that precede the payload: the TTY flag in sudo mode,
\* the connection's ssh arguments, the formatted endpoint.
sshCommandArgs(connection, command) ==
  (IF isSudo(command) THEN <<S_tt>> ELSE <<>>)
    \o connection.sshArgs
    \o <<format(connection.remote)>>

\* command.replace(/"/g, '\\"')
escapeDoubleQuotes(command) == ReplaceAllChar(command, "\"", S_bs \o S_dq)

\* The asUser re-wrapping of the escaped command.
asUserCommand(connection, command, sudo) ==
  IF connection.options.asUser # Undef
  THEN S_sudo_u \o connection.options.asUser
         \o (IF sudo THEN ReplaceFirst(command, S_sudo, <<>>) ELSE command)
  ELSE command

\* The text placed between the wrapping double quotes.
sshPayload(connection, command) ==
  asUserCommand(connection, escapeDoubleQuotes(command), isSudo(command))

\* Connection.prototype.buildSSHCommand(command)
buildSSHCommand(connection, command) ==
  Join(<<S_ssh>> \o sshCommandArgs(connection, command)
         \o <<S_dq \o sshPayload(connection, command) \o S_dq>>,
       S_sp)

\* formatExcludes(excludes)
RECURSIVE formatExcludes(_)
formatExcludes(excludes) ==
  IF excludes = <<>> THEN <<>>
  ELSE <<S_exclude, S_dq \o Head(excludes) \o S_dq>> \o formatExcludes(Tail(excludes))

\* options.ignores ? formatExcludes(options.ignores) : []
excludesOf(options) ==
  IF options.ignores # Undef THEN formatExcludes(options.ignores) ELSE <<>>

\* buildSCPCommand(connection, from, to)
buildSCPCommand(connection, from, to) ==
  Join(<<S_scp>>
         \o (IF Truthy(connection.remote.port) THEN <<S_P, connection.remote.port>> ELSE <<>>)
         \o (IF Truthy(connection.options.key) THEN <<S_i, connection.options.key>> ELSE <<>>)
         \o <<from, to>>,
       S_sp)

\* _.defaults(options || {}, {direction: 'localToRemote', rsync: []})
copyDefaults(options) ==
  [options EXCEPT
     !.direction = IF @ = "undefined" THEN "localToRemote" ELSE @,
     !.rsync = IF @ = Undef THEN <<>> ELSE @]

\* Variant: the source endpoint prefixed whatever the direction.
completeSrcAlways(options, connection, src) ==
  format(connection.remote) \o S_colon \o src

\* copyViaRsync: the source endpoint argument.
completeSrc(options, connection, src) ==
  IF options.direction = "remoteToLocal"
  THEN format(connection.remote) \o S_colon \o src
  ELSE src

\* copyViaRsync: the destination endpoint argument.
completeDest(options, connection, dest) ==
  IF options.direction = "localToRemote"
  THEN format(connection.remote) \o S_colon \o dest
  ELSE dest

\* copyViaRsync: the command line handed to execCommand.
rsyncCommand(options, connection, src, dest) ==
  Join(<<S_rsync>> \o excludesOf(options) \o <<S_az>> \o options.rsync
         \o <<S_e,
              S_dq \o S_ssh \o S_sp \o Join(connection.sshArgs, S_sp) \o S_dq,
              completeSrc(options, connection, src),
              completeDest(options, connection, dest)>>,
       S_sp)

\* Variant: the two sides exchanged.
isLocalSideSwapped(options, side) ==
  \/ options.direction = "remoteToLocal" /\ side = "src"
  \/ options.direction = "localToRemote" /\ side = "dest"

\* generateScpCommands: whether a step of the given side runs on the local
\* shell (the condition shared by generateCommand and generatePath).
isLocalSide(options, side) ==
  \/ options.direction = "remoteToLocal" /\ side = "dest"
  \/ options.direction = "localToRemote" /\ side = "src"

\* generateScpCommands.generateCommand(cmd, side)
generateCommand(options, connection, cmd, side) ==
  IF isLocalSide(options, side) THEN cmd ELSE buildSSHCommand(connection, cmd)

\* generateScpCommands.generatePath(path, side)
generatePath(options, connection, path, side) ==
  LET resolvedPath == resolveMsysGitPath(path)
  IN IF isLocalSide(options, side) THEN resolvedPath
     ELSE format(connection.remote) \o S_colon \o resolvedPath

\* sprintf('%s.tmp.tar.gz', path.basename(src))
packageFile(src) == basename(src) \o S_tmp

\* The shell text of each step before it is routed to a side.
cdSource(src) == Join(<<S_cd, dirname(src)>>, S_sp)

cdDest(dest) == Join(<<S_cd, dest>>, S_sp)

tarText(options, src) ==
  Join(<<cdSource(src),
         Join(<<S_tar>> \o excludesOf(options)
                \o <<S_czf, packageFile(src), basename(src)>>, S_sp)>>,
       S_and)

mkdirText(dest) == Join(<<S_mkdir, S_p, dest>>, S_sp)

rmSourceText(src) ==
  Join(<<cdSource(src), Join(<<S_rm, packageFile(src)>>, S_sp)>>, S_and)

untarText(src, dest) ==
  Join(<<cdDest(dest),
         Join(<<S_tar, S_strip, S_one, S_xzf, packageFile(src)>>, S_sp)>>,
       S_and)

rmDestText(src, dest) ==
  Join(<<cdDest(dest), Join(<<S_rm, packageFile(src)>>, S_sp)>>, S_and)

\* The scp transfer step.
scpCopyText(options, connection, src, dest) ==
  LET fromPath == generatePath(options, connection,
                               dirname(src) \o S_slash \o packageFile(src), "src")
      toPath == generatePath(options, connection, dest, "dest")
  IN IF options.direction = "localToRemote"
     THEN Join(<<cdSource(src), buildSCPCommand(connection, packageFile(src), toPath)>>,
               S_and)
     ELSE buildSCPCommand(connection, fromPath, toPath)

\* generateScpCommands(options, connection, src, dest)
generateScpCommands(options, connection, src, dest) ==
  <<generateCommand(options, connection, tarText(options, src), "src"),
    generateCommand(options, connection, mkdirText(dest), "dest"),
    scpCopyText(options, connection, src, dest),
    generateCommand(options, connection, rmSourceText(src), "src"),
    generateCommand(options, connection, untarText(src, dest), "dest"),
    generateCommand(options, connection, rmDestText(src, dest), "dest")>>

(***************************************************************************)
(* State.                                                                  *)
(*                                                                         *)
(*   bin, bpc, bout   one application of a command-line builder: its       *)
(*                    input, whether it has run, what it returned          *)
(*   call             the pool call in progress                            *)
(*   members          per connection: the state of its operation           *)
(*   procs            per connection: the child processes exec started,    *)
(*                    in start order                                       *)
(*   agg              the promise returned by Promise.all                  *)
(*   settled          the connections in the order their operations        *)
(*                    settled (history)                                    *)
(*   observed         the connections in the order Promise.all took        *)
(*                    their outcomes (history)                             *)
(*   delivered        what the caller of the pool call has been handed     *)
(*   files            the temporary archives that exist, on the local      *)
(*                    machine and on the remote hosts                      *)
(*   access           which member's process touched which file or         *)
(*                    directory, and how (history)                         *)
(***************************************************************************)
VARIABLES bin, bpc, bout, call, members, procs, agg, settled, observed,
          delivered, files, access

bvars == <<bin, bpc, bout>>
pvars == <<call, members, procs, agg, settled, observed, delivered, files, access>>
vars == <<bin, bpc, bout, call, members, procs, agg, settled, observed,
          delivered, files, access>>

(***************************************************************************)
(* Inputs.                                                                 *)
(***************************************************************************)
Fragments == {S_sudo, S_sp, S_dq, S_bs, S_ls}

\* The texts made of at most n fragments.
RECURSIVE TextsUpTo(_)
TextsUpTo(n) ==
  IF n = 0 THEN {<<>>}
  ELSE LET shorter == TextsUpTo(n - 1)
       IN shorter \cup {t \o f : t \in shorter, f \in Fragments}

Commands == TextsUpTo(MaxFrags)

S_user == <<"a">>
S_key == <<"/", "k">>
S_port == <<"2", "2">>
S_no == <<"n", "o">>
S_ab == <<"/", "a", "/", "b">>
S_b == <<"b">>
S_rootb == <<"/", "b">>
S_win == <<"c", ":", "\\", "a", "\\", "b">>
S_winls == <<"c", ":", "\\", "a", LineSeparator, "b">>
S_d == <<"/", "d">>
S_x == <<"x">>
S_star == <<"*", ".", "o">>
HostDigits == <<"1", "2", "3", "4", "5", "6", "7", "8", "9">>

\* The host name of the i-th pool member: h1, h2, ...
HostName(i) == <<"h", HostDigits[i]>>

Paths == {S_ab, S_b, S_rootb, S_win, S_winls}
DestPaths == {S_d, S_win}
Directions == {"undefined", "localToRemote", "remoteToLocal"}

\* Connections over every combination of the optional settings.
BuilderConnections ==
  {Connection([remote |-> [user |-> S_user, host |-> HostName(1), port |-> port],
               key |-> key, strict |-> strict, asUser |-> asUser]) :
     port \in {Undef, S_port}, key \in {Undef, S_key},
     strict \in {Undef, S_no}, asUser \in {Undef, S_bob}}

CopyOptionsSet ==
  [direction : Directions, useShim : BOOLEAN,
   ignores : {Undef, <<S_x, S_star>>}, rsync : {Undef}]

NoOptions ==
  [direction |-> "undefined", useShim |-> FALSE, ignores |-> Undef, rsync |-> Undef]

BuilderInputs ==
  [kind : {"ssh"}, connection : BuilderConnections, command : Commands,
   options : {NoOptions}, src : {<<>>}, dest : {<<>>}]
  \cup
  [kind : {"scp", "rsync"}, connection : BuilderConnections, command : {<<>>},
   options : CopyOptionsSet, src : Paths, dest : DestPaths]

(***************************************************************************)
(* The command-line builders, applied to one input.                        *)
(***************************************************************************)
(***************************************************************************)
(* The pool: values, connections and promise plumbing.                     *)
(***************************************************************************)
\* What a promise settles with: the {child, stdout, stderr} of exec's
\* callback, or its err. A chunk of output names the process that wrote it.
NoValue == [kind |-> "none", child |-> <<>>, stdout |-> <<>>, stderr |-> <<>>]

ExecResult(i, k) ==
  [kind |-> "result", child |-> <<i, k>>, stdout |-> <<<<i, k>>>>, stderr |-> <<<<i, k>>>>]

ExecError(i, k) ==
  [kind |-> "error", child |-> <<i, k>>, stdout |-> <<>>, stderr |-> <<>>]

\* new ConnectionPool(['a@h1', 'a@h2', ...])
Connections ==
  [i \in 1..MaxConns |->
     Connection([remote |-> [user |-> S_user, host |-> HostName(i), port |-> Undef],
                 key |-> Undef, strict |-> Undef, asUser |-> Undef])]

NoCall ==
  [op |-> "none", command |-> <<>>, options |-> NoOptions, src |-> <<>>, dest |-> <<>>]

\* A member operation: pc and outcome are the state of the promise that
\* connection.run or connection.copy returned, returned is the state of the
\* promise the copy handler returned (NoValue while pending).
IdleMember ==
  [pc |-> "idle", handler |-> "none", rsyncAvailable |-> "unknown",
   commands |-> <<>>,
   results |-> [stdout |-> <<>>, stderr |-> <<>>],
   returned |-> NoValue, outcome |-> NoValue]

IdleAgg == [state |-> "idle", values |-> <<>>, remaining |-> 0, reason |-> NoValue]

\* Promise.all(promises), nothing settled yet.
PendingAgg ==
  [state |-> "pending", values |-> [i \in 1..MaxConns |-> NoValue],
   remaining |-> MaxConns, reason |-> NoValue]

\* Variant: the value stored in the first free slot, in order of arrival.
promiseAllStoreArrival(values, i, v) ==
  LET free == {n \in 1..Len(values) : values[n].kind = "none"}
  IN [values EXCEPT ![CHOOSE n \in free : \A m \in free : n <= m] = v]

\* Promise.all: the value of the i-th promise is stored at index i.
promiseAllStore(values, i, v) == [values EXCEPT ![i] = v]

\* Promise.all: the i-th promise is fulfilled with v.
promiseAllFulfil(a, i, v) ==
  IF a.state = "pending"
  THEN [a EXCEPT !.values = promiseAllStore(a.values, i, v),
                 !.remaining = a.remaining - 1,
                 !.state = IF a.remaining = 1 THEN "fulfilled" ELSE "pending"]
  ELSE a

\* Variant: a rejection that leaves the aggregate waiting.
promiseAllRejectLate(a, reason) == a

\* Promise.all: one of the promises is rejected with reason.
promiseAllReject(a, reason) ==
  IF a.state = "pending"
  THEN [a EXCEPT !.state = "rejected", !.reason = reason]
  ELSE a

\* Nothing handed to the caller yet.
NotDelivered == [kind |-> "none", values |-> <<>>, error |-> NoValue]

\* What .nodeify(cb) / .then hands the caller of the pool call once the
\* aggregate is settled.
Delivered ==
  CASE agg.state = "fulfilled" -> [kind |-> "values", values |-> agg.values, error |-> NoValue]
    [] agg.state = "rejected" -> [kind |-> "error", values |-> <<>>, error |-> agg.reason]
    [] OTHER -> NotDelivered

BuilderIdle ==
  /\ call = NoCall
  /\ members = [i \in 1..MaxConns |-> IdleMember]
  /\ procs = [i \in 1..MaxConns |-> <<>>]
  /\ agg = IdleAgg
  /\ settled = <<>>
  /\ observed = <<>>
  /\ delivered = NotDelivered
  /\ files = {}
  /\ access = {}

BuildInit ==
  /\ bin \in BuilderInputs
  /\ bpc = "input"
  /\ bout = <<>>
  /\ BuilderIdle

\* connection.buildSSHCommand(command)
BuildSSH ==
  /\ bpc = "input"
  /\ bin.kind = "ssh"
  /\ bout' = <<buildSSHCommand(bin.connection, bin.command)>>
  /\ bpc' = "built"
  /\ UNCHANGED <<bin, pvars>>

\* generateScpCommands(options, connection, src, dest), options defaulted
\* by Connection.prototype.copy
BuildScp ==
  /\ bpc = "input"
  /\ bin.kind = "scp"
  /\ bout' = generateScpCommands(copyDefaults(bin.options), bin.connection,
                                 bin.src, bin.dest)
  /\ bpc' = "built"
  /\ UNCHANGED <<bin, pvars>>

\* The command line of copyViaRsync(options, connection, src, dest)
BuildRsync ==
  /\ bpc = "input"
  /\ bin.kind = "rsync"
  /\ bout' = <<rsyncCommand(copyDefaults(bin.options), bin.connection,
                            bin.src, bin.dest)>>
  /\ bpc' = "built"
  /\ UNCHANGED <<bin, pvars>>

BuildNext == BuildSSH \/ BuildScp \/ BuildRsync

SpecBuild == BuildInit /\ [][BuildNext]_vars

(***************************************************************************)
(* The pool calls and the callbacks that follow them.                      *)
(***************************************************************************)
PoolCommands == {S_ls, S_sudo \o S_sp \o S_ls}
PoolSrc == S_ab
PoolDest == S_d
PoolCopyOptions ==
  [direction : Directions, useShim : BOOLEAN, ignores : {Undef}, rsync : {Undef}]

Init ==
  /\ bin = [kind |-> "none", connection |-> Connections[1], command |-> <<>>,
            options |-> NoOptions, src |-> <<>>, dest |-> <<>>]
  /\ bpc = "off"
  /\ bout = <<>>
  /\ call = NoCall
  /\ members = [i \in 1..MaxConns |-> IdleMember]
  /\ procs = [i \in 1..MaxConns |-> <<>>]
  /\ agg = IdleAgg
  /\ settled = <<>>
  /\ observed = <<>>
  /\ delivered = NotDelivered
  /\ files = {}
  /\ access = {}

\* The number of commands generateScpCommands returns: the most processes
\* one member operation starts.
StepCount == 6

\* exec(cmd, ...) for each of the given steps: the processes started. state
\* is what exec's callback has reported, exit the status of a child that
\* has exited ("none" while it runs).
Spawn(steps, cmds) ==
  [n \in 1..Len(steps) |->
     [step |-> steps[n], cmd |-> cmds[steps[n]], state |-> "running", exit |-> "none"]]

\* Connection.prototype.copy: the strategy for the probe's answer.
chooseHandler(rsyncAvailable, options) ==
  IF rsyncAvailable THEN "rsync" ELSE "scp"

\* Variant: every step started at once.
scpStartStepsAll(commands) == [k \in 1..Len(commands) |-> k]

\* copyViaScp, Promise.reduce: the steps started when the copy begins.
scpStartSteps(commands) == IF commands = <<>> THEN <<>> ELSE <<1>>

\* Variant: the next step started whatever the exit status.
scpNextStepsAnyway(commands, k, ok) ==
  IF k < Len(commands) THEN <<k + 1>> ELSE <<>>

\* copyViaScp, Promise.reduce: the steps started when step k has exited.
scpNextSteps(commands, k, ok) ==
  IF ok /\ k < Len(commands) THEN <<k + 1>> ELSE <<>>

\* Where the commands of a side run: on the machine running the pool, or on
\* the connection's host (no host name equals the marker).
LocalMachine == <<"local">>

sideLocation(options, connection, side) ==
  IF isLocalSide(options, side) THEN LocalMachine ELSE connection.remote.host

\* The temporary archive as step 1 writes it: packageFile in dirname(src),
\* on the src side.
srcArchive(options, connection, src) ==
  [loc |-> sideLocation(options, connection, "src"),
   path |-> dirname(src) \o S_slash \o packageFile(src),
   kind |-> "archive"]

\* The temporary archive as step 3 leaves it: packageFile in dest, on the
\* dest side.
destArchive(options, connection, src, dest) ==
  [loc |-> sideLocation(options, connection, "dest"),
   path |-> dest \o S_slash \o packageFile(src),
   kind |-> "archive"]

\* The tree that is copied, on the src side.
srcTree(options, connection, src) ==
  [loc |-> sideLocation(options, connection, "src"), path |-> src, kind |-> "tree"]

\* The destination directory, on the dest side.
destTree(options, connection, dest) ==
  [loc |-> sideLocation(options, connection, "dest"), path |-> dest, kind |-> "tree"]

\* What the process of staged step k reads, writes and removes.
stepAccesses(options, connection, src, dest, k) ==
  LET from == srcArchive(options, connection, src)
      to == destArchive(options, connection, src, dest)
  IN CASE k = 1 -> {[resource |-> srcTree(options, connection, src), mode |-> "read"],
                    [resource |-> from, mode |-> "write"]}
       [] k = 2 -> {[resource |-> destTree(options, connection, dest), mode |-> "write"]}
       [] k = 3 -> {[resource |-> from, mode |-> "read"],
                    [resource |-> to, mode |-> "write"]}
       [] k = 4 -> {[resource |-> from, mode |-> "remove"]}
       [] k = 5 -> {[resource |-> to, mode |-> "read"],
                    [resource |-> destTree(options, connection, dest), mode |-> "write"]}
       [] k = 6 -> {[resource |-> to, mode |-> "remove"]}
       [] OTHER -> {}

\* What the rsync process reads and writes.
rsyncAccesses(options, connection, src, dest) ==
  {[resource |-> srcTree(options, connection, src), mode |-> "read"],
   [resource |-> destTree(options, connection, dest), mode |-> "write"]}

\* The archives a process has to find in order to exit with status zero.
neededArchives(accesses) ==
  {a.resource : a \in {b \in accesses : /\ b.mode \in {"read", "remove"}
                                        /\ b.resource.kind = "archive"}}

\* The archives left once a process with these accesses has succeeded.
filesAfter(present, accesses) ==
  (present \cup {a.resource : a \in {b \in accesses : /\ b.mode = "write"
                                                      /\ b.resource.kind = "archive"}})
    \ {a.resource : a \in {b \in accesses : b.mode = "remove"}}

\* copyViaScp: the commands generated for the i-th member's copy.
ScpCommandsOf(i) ==
  generateScpCommands(call.options, Connections[i], call.src, call.dest)

\* ConnectionPool.prototype.run(command): connection.run on every member,
\* each starting its ssh process, then Promise.all over the promises.
PoolRun(command) ==
  /\ call.op = "none"
  /\ call' = [NoCall EXCEPT !.op = "run", !.command = command]
  /\ procs' = [i \in 1..MaxConns |->
                 Spawn(<<1>>, <<buildSSHCommand(Connections[i], command)>>)]
  /\ members' = [i \in 1..MaxConns |->
                   [IdleMember EXCEPT !.pc = "running", !.handler = "run"]]
  /\ agg' = PendingAgg
  /\ UNCHANGED <<settled, observed, delivered, files, access, bvars>>

\* ConnectionPool.prototype.copy(src, dest, options): connection.copy on
\* every member, each applying the defaults and starting its rsync probe,
\* then Promise.all over the promises.
PoolCopy(options) ==
  /\ call.op = "none"
  /\ call' = [NoCall EXCEPT !.op = "copy", !.options = copyDefaults(options),
                            !.src = PoolSrc, !.dest = PoolDest]
  /\ members' = [i \in 1..MaxConns |-> [IdleMember EXCEPT !.pc = "probing"]]
  /\ agg' = PendingAgg
  /\ UNCHANGED <<procs, settled, observed, delivered, files, access, bvars>>

\* isRsyncAvailable: the whereis callback of member i resolves the probe's
\* promise with the answer; nothing else happens in the callback.
WhereisCallback(i, rsyncAvailable) ==
  /\ members[i].pc = "probing"
  /\ members[i].rsyncAvailable = "unknown"
  /\ members' = [members EXCEPT ![i].rsyncAvailable =
                                  IF rsyncAvailable THEN "yes" ELSE "no"]
  /\ UNCHANGED <<call, procs, agg, settled, observed, delivered, files, access, bvars>>

\* Connection.prototype.copy, the callback of isRsyncAvailable().then: it
\* runs in a turn after the probe's answer and calls the handler.
\* copyViaRsync starts the rsync process; copyViaScp generates the commands
\* and hands them to Promise.reduce, which has started none of them when the
\* callback returns.
CopyThen(i) ==
  /\ members[i].pc = "probing"
  /\ members[i].rsyncAvailable # "unknown"
  /\ LET handler == chooseHandler(members[i].rsyncAvailable = "yes", call.options)
         commands == IF handler = "scp" THEN ScpCommandsOf(i) ELSE <<>>
         started ==
           IF handler = "rsync"
           THEN Spawn(<<1>>, <<rsyncCommand(call.options, Connections[i],
                                            call.src, call.dest)>>)
           ELSE <<>>
     IN /\ members' = [members EXCEPT ![i] =
                         [@ EXCEPT !.pc = "running", !.handler = handler,
                                   !.commands = commands]]
        /\ procs' = [procs EXCEPT ![i] = started]
  /\ UNCHANGED <<call, agg, settled, observed, delivered, files, access, bvars>>

\* copyViaScp, Promise.reduce: in a turn after the handler returned, the
\* reducer is called for the first command and execCommand starts it.
ReduceStart(i) ==
  /\ members[i].pc = "running"
  /\ members[i].handler = "scp"
  /\ procs[i] = <<>>
  /\ procs' = [procs EXCEPT ![i] =
                 Spawn(scpStartSteps(members[i].commands), members[i].commands)]
  /\ UNCHANGED <<call, members, agg, settled, observed, delivered, files, access, bvars>>

\* The accesses of the k-th process of member i.
AccessesOf(i, k) ==
  IF members[i].handler = "scp"
  THEN stepAccesses(call.options, Connections[i], call.src, call.dest, procs[i][k].step)
  ELSE IF members[i].handler = "rsync"
  THEN rsyncAccesses(call.options, Connections[i], call.src, call.dest)
  ELSE {}

\* The k-th child process of member i does its work and exits, with status
\* zero (ok) or not; node has not called exec's callback yet. A process
\* that does not find an archive it reads or removes exits non-zero and
\* touches nothing; a process may also fail for a reason of its own, having
\* done its work on the files (done) or not.
ChildExit(i, k, ok, done) ==
  /\ k \in 1..Len(procs[i])
  /\ procs[i][k].exit = "none"
  /\ ok => done
  /\ done => neededArchives(AccessesOf(i, k)) \subseteq files
  /\ procs' = [procs EXCEPT ![i][k].exit = IF ok THEN "zero" ELSE "nonzero"]
  /\ files' = IF done THEN filesAfter(files, AccessesOf(i, k)) ELSE files
  /\ access' = access \cup
       (IF done
        THEN {[member |-> i, resource |-> a.resource, mode |-> a.mode] :
                a \in AccessesOf(i, k)}
        ELSE {[member |-> i, resource |-> r, mode |-> "missing"] :
                r \in neededArchives(AccessesOf(i, k)) \ files})
  /\ UNCHANGED <<call, members, agg, settled, observed, delivered, bvars>>

\* exec's callback for the k-th process of member i: it resolves or rejects
\* the promise of the process and nothing more. In connection.run that
\* promise is the member's own; in a copy it is the one execCommand
\* returned, which for rsync is also what the handler returned.
ExecCallback(i, k) ==
  /\ k \in 1..Len(procs[i])
  /\ procs[i][k].state = "running"
  /\ procs[i][k].exit # "none"
  /\ LET m == members[i]
         ok == procs[i][k].exit = "zero"
         value == IF ok THEN ExecResult(i, k) ELSE ExecError(i, k)
         settles == m.handler = "run" /\ m.pc = "running"
     IN /\ procs' = [procs EXCEPT ![i][k].state = IF ok THEN "exited" ELSE "failed"]
        /\ members' = [members EXCEPT ![i] =
                         IF settles
                         THEN [@ EXCEPT !.pc = IF ok THEN "fulfilled" ELSE "rejected",
                                        !.outcome = value]
                         ELSE IF m.handler = "rsync"
                         THEN [@ EXCEPT !.returned = value]
                         ELSE @]
        /\ settled' = IF settles THEN Append(settled, i) ELSE settled
  /\ UNCHANGED <<call, agg, observed, delivered, files, access, bvars>>

\* The steps of member i's staged copy whose output the reducer has added
\* to the results.
Collected(i) == Len(members[i].results.stdout)

\* copyViaScp, the callback of execCommand(...).then: in a turn after the
\* callback of exec, the output of the exited step is added to the results.
StepThen(i) ==
  /\ members[i].pc = "running"
  /\ members[i].handler = "scp"
  /\ Collected(i) < Len(procs[i])
  /\ procs[i][Collected(i) + 1].state = "exited"
  /\ LET k == Collected(i) + 1
     IN members' = [members EXCEPT ![i].results =
                      [stdout |-> @.stdout \o ExecResult(i, k).stdout,
                       stderr |-> @.stderr \o ExecResult(i, k).stderr]]
  /\ UNCHANGED <<call, procs, agg, settled, observed, delivered, files, access, bvars>>

\* copyViaScp, Promise.reduce: in a later turn the reduction goes on from
\* the settled step k. After a fulfilled step it starts the next command,
\* or, after the last, fulfils the promise copyViaScp returned with the
\* results; after a rejected step it rejects that promise with the error.
ReduceNext(i) ==
  /\ members[i].pc = "running"
  /\ members[i].handler = "scp"
  /\ members[i].returned.kind = "none"
  /\ procs[i] # <<>>
  /\ LET m == members[i]
         k == Len(procs[i])
         p == procs[i][k]
         ok == p.state = "exited"
         next == scpNextSteps(m.commands, p.step, ok)
     IN /\ \/ p.state = "exited" /\ Collected(i) = k
           \/ p.state = "failed"
        /\ procs' = [procs EXCEPT ![i] = @ \o Spawn(next, m.commands)]
        /\ members' = [members EXCEPT ![i].returned =
                         IF next # <<>> THEN @
                         ELSE IF ok
                         THEN [kind |-> "result", child |-> <<>>,
                               stdout |-> m.results.stdout, stderr |-> m.results.stderr]
                         ELSE ExecError(i, k)]
  /\ UNCHANGED <<call, agg, settled, observed, delivered, files, access, bvars>>

\* Connection.prototype.copy: the promise of isRsyncAvailable().then, which
\* is the member's, takes in a later turn the outcome of the promise the
\* handler returned.
CopySettle(i) ==
  /\ members[i].pc = "running"
  /\ members[i].handler \in {"rsync", "scp"}
  /\ members[i].returned.kind # "none"
  /\ members' = [members EXCEPT ![i] =
                   [@ EXCEPT !.pc = IF members[i].returned.kind = "result"
                                    THEN "fulfilled" ELSE "rejected",
                             !.outcome = members[i].returned]]
  /\ settled' = Append(settled, i)
  /\ UNCHANGED <<call, procs, agg, observed, delivered, files, access, bvars>>

\* The connections whose outcome Promise.all has taken.
Observed == {observed[n] : n \in 1..Len(observed)}

\* Promise.all: in a turn after member i's promise settled, the aggregate
\* takes its outcome.
PromiseAllThen(i) ==
  /\ members[i].pc \in {"fulfilled", "rejected"}
  /\ i \notin Observed
  /\ agg' = IF members[i].pc = "fulfilled"
            THEN promiseAllFulfil(agg, i, members[i].outcome)
            ELSE promiseAllReject(agg, members[i].outcome)
  /\ observed' = Append(observed, i)
  /\ UNCHANGED <<call, members, procs, settled, delivered, files, access, bvars>>

\* .nodeify(cb) of the pool call: in a turn after the aggregate settled, the
\* caller is handed the values or the error.
Nodeify ==
  /\ agg.state \in {"fulfilled", "rejected"}
  /\ delivered = NotDelivered
  /\ delivered' = Delivered
  /\ UNCHANGED <<call, members, procs, agg, settled, observed, files, access, bvars>>

Next ==
  \/ \E command \in PoolCommands : PoolRun(command)
  \/ \E options \in PoolCopyOptions : PoolCopy(options)
  \/ \E i \in 1..MaxConns, rsyncAvailable \in BOOLEAN : WhereisCallback(i, rsyncAvailable)
  \/ \E i \in 1..MaxConns : CopyThen(i)
  \/ \E i \in 1..MaxConns : ReduceStart(i)
  \/ \E i \in 1..MaxConns, k \in 1..StepCount, ok \in BOOLEAN, done \in BOOLEAN :
       ChildExit(i, k, ok, done)
  \/ \E i \in 1..MaxConns, k \in 1..StepCount : ExecCallback(i, k)
  \/ \E i \in 1..MaxConns : StepThen(i)
  \/ \E i \in 1..MaxConns : ReduceNext(i)
  \/ \E i \in 1..MaxConns : CopySettle(i)
  \/ \E i \in 1..MaxConns : PromiseAllThen(i)
  \/ Nodeify

Spec == Init /\ [][Next]_vars

(***************************************************************************)
(* Reading a built command line back.                                      *)
(***************************************************************************)
\* The quoted last argument of an ssh command line: from its first double
\* quote (the arguments before it hold none) to its end.
QuotedArgument(cmdline) == Slice(cmdline, IndexOf(cmdline, S_dq), Len(cmdline))

\* The text between the two wrapping quotes.
PayloadSegment(cmdline) ==
  LET q == QuotedArgument(cmdline) IN Slice(q, 2, Len(q) - 1)

\* The tokens before the quoted argument: ssh and its flags.
OptionTokens(cmdline) ==
  Split(Slice(cmdline, 1, IndexOf(cmdline, S_dq) - 2), " ")

HasTTYFlag(cmdline) ==
  LET tokens == OptionTokens(cmdline)
  IN \E k \in 1..Len(tokens) : tokens[k] = S_tt

\* The number of double quotes a shell reading s inside double quotes takes
\* as closing ones: a backslash takes the next character with it.
RECURSIVE UnescapedQuotes(_)
UnescapedQuotes(s) ==
  IF s = <<>> THEN 0
  ELSE IF Head(s) = "\\"
       THEN (IF Len(s) >= 2 THEN UnescapedQuotes(Tail(Tail(s))) ELSE 0)
       ELSE (IF Head(s) = "\"" THEN 1 ELSE 0) + UnescapedQuotes(Tail(s))

\* Whether s ends with a backslash that escapes what follows s.
RECURSIVE DanglingEscape(_)
DanglingEscape(s) ==
  IF s = <<>> THEN FALSE
  ELSE IF Head(s) = "\\"
       THEN (IF Len(s) >= 2 THEN DanglingEscape(Tail(Tail(s))) ELSE TRUE)
       ELSE DanglingEscape(Tail(s))

CountChar(s, ch) == Cardinality({k \in 1..Len(s) : s[k] = ch})

\* Every double quote of s directly follows a backslash.
QuotesFollowBackslash(s) ==
  \A k \in 1..Len(s) : s[k] = "\"" => (k > 1 /\ s[k - 1] = "\\")

BuiltSSH == bpc = "built" /\ bin.kind = "ssh"
BuiltScp == bpc = "built" /\ bin.kind = "scp"
BuiltRsync == bpc = "built" /\ bin.kind = "rsync"

(***************************************************************************)
(* C3. The ssh command line built for a command carries the TTY flag -tt   *)
(* exactly when the command starts with sudo.                              *)
(***************************************************************************)
\* C3: -tt is among the ssh flags iff the command starts with sudo.
C3_TTYIffSudo ==
  BuiltSSH => (HasTTYFlag(bout[1]) <=> StartsWith(bin.command, S_sudo))

C3_Witness ==
  /\ BuiltSSH
  /\ StartsWith(bin.command, S_sudo)
  /\ HasTTYFlag(bout[1])
  /\ bin.command = S_sudo \o S_sp \o S_ls

(***************************************************************************)
(* C4. For a command holding double quotes, the payload is wrapped in one  *)
(* pair of double quotes, every double quote of the command appears in it  *)
(* as \" and no unescaped double quote remains between the wrapping        *)
(* quotes, so that the payload is a single double-quoted argument.         *)
(***************************************************************************)
\* C4: the payload of a command with double quotes is one double-quoted
\* argument whose inner double quotes are all escaped.
C4_QuotesEscaped ==
  (BuiltSSH /\ CountChar(bin.command, "\"") > 0) =>
    LET q == QuotedArgument(bout[1])
        inner == PayloadSegment(bout[1])
    IN /\ Len(q) >= 2
       /\ q[1] = "\""
       /\ q[Len(q)] = "\""
       /\ CountChar(inner, "\"") = CountChar(bin.command, "\"")
       /\ QuotesFollowBackslash(inner)
       /\ UnescapedQuotes(inner) = 0
       /\ ~DanglingEscape(inner)

(***************************************************************************)
(* C10. With an asUser override u, the payload is the command re-wrapped   *)
(* as sudo -u u <command>, u and the command being separate tokens, the    *)
(* leading sudo of a sudo command being stripped first.                    *)
(***************************************************************************)
\* C10: with asUser u the payload is sudo -u u followed, as separate
\* tokens, by the command without its leading sudo (the separating space
\* may be the one the command kept after its stripped sudo).
C10_AsUserWrap ==
  (BuiltSSH /\ bin.connection.options.asUser # Undef) =>
    LET inner == PayloadSegment(bout[1])
        tokens == Split(inner, " ")
        escaped == escapeDoubleQuotes(bin.command)
        rest == IF StartsWith(bin.command, S_sudo)
                THEN Slice(escaped, Len(S_sudo) + 1, Len(escaped))
                ELSE escaped
    IN /\ Len(tokens) >= 3
       /\ tokens[1] = S_sudo
       /\ tokens[2] = <<"-", "u">>
       /\ tokens[3] = bin.connection.options.asUser
       /\ \/ inner = S_sudo_u \o bin.connection.options.asUser \o rest
          \/ inner = S_sudo_u \o bin.connection.options.asUser \o S_sp \o rest

(***************************************************************************)
(* C8. In both directions, a step of the staged copy that belongs to a     *)
(* side is wrapped through buildSSHCommand exactly when that side is the   *)
(* remote one (src for remoteToLocal, dest for localToRemote); a step of   *)
(* the local side is the bare shell command.                               *)
(***************************************************************************)
SidedSteps == {1, 2, 4, 5, 6}

StepSide(k) == IF k \in {1, 4} THEN "src" ELSE "dest"

StepText(k, options, src, dest) ==
  CASE k = 1 -> tarText(options, src)
    [] k = 2 -> mkdirText(dest)
    [] k = 4 -> rmSourceText(src)
    [] k = 5 -> untarText(src, dest)
    [] k = 6 -> rmDestText(src, dest)

RemoteSide(direction, side) ==
  \/ direction = "remoteToLocal" /\ side = "src"
  \/ direction = "localToRemote" /\ side = "dest"

\* C8: each sided step is buildSSHCommand of its text iff its side is the
\* remote one, and the bare text otherwise.
C8_StepRouting ==
  BuiltScp =>
    LET options == copyDefaults(bin.options)
    IN /\ options.direction \in {"localToRemote", "remoteToLocal"}
       /\ Len(bout) = 6
       /\ \A k \in SidedSteps :
            LET text == StepText(k, options, bin.src, bin.dest)
            IN IF RemoteSide(options.direction, StepSide(k))
               THEN /\ bout[k] = buildSSHCommand(bin.connection, text)
                    /\ StartsWith(bout[k], S_ssh \o S_sp)
               ELSE /\ bout[k] = text
                    /\ ~StartsWith(bout[k], S_ssh \o S_sp)

C8_Witness ==
  /\ BuiltScp
  /\ bin.options.direction = "remoteToLocal"
  /\ StartsWith(bout[1], S_ssh \o S_sp)
  /\ bout[2] = mkdirText(bin.dest)

(***************************************************************************)
(* C9. With direction localToRemote the destination argument handed to     *)
(* the transfer tool carries the prefix user@host: and the source argument *)
(* does not; with remoteToLocal it is the other way round. Exactly one of  *)
(* the two endpoint arguments carries the prefix.                          *)
(***************************************************************************)
\* The command line of the transfer tool: rsync, or the scp step.
TransferCommand == IF bin.kind = "rsync" THEN bout[1] ELSE bout[3]

SourceArgument(cmdline) ==
  LET tokens == Split(cmdline, " ") IN tokens[Len(tokens) - 1]

DestinationArgument(cmdline) ==
  LET tokens == Split(cmdline, " ") IN tokens[Len(tokens)]

RemotePrefix(connection) == connection.remote.user \o S_at \o connection.remote.host \o S_colon

\* C9: exactly the remote endpoint argument of the transfer command
\* carries user@host:.
C9_RemotePrefix ==
  (BuiltRsync \/ BuiltScp) =>
    LET direction == copyDefaults(bin.options).direction
        prefix == RemotePrefix(bin.connection)
        srcArg == SourceArgument(TransferCommand)
        destArg == DestinationArgument(TransferCommand)
    IN /\ direction = "localToRemote" =>
            (StartsWith(destArg, prefix) /\ ~StartsWith(srcArg, prefix))
       /\ direction = "remoteToLocal" =>
            (StartsWith(srcArg, prefix) /\ ~StartsWith(destArg, prefix))
       /\ StartsWith(srcArg, prefix) # StartsWith(destArg, prefix)

C9_Witness ==
  /\ BuiltRsync
  /\ bin.options.direction = "remoteToLocal"
  /\ SourceArgument(bout[1]) = RemotePrefix(bin.connection) \o bin.src
  /\ DestinationArgument(bout[1]) = bin.dest

(***************************************************************************)
(* C1. When every member operation succeeds, run and copy return one       *)
(* result per pool member, the result at index i being that of the i-th    *)
(* connection, whatever the order in which the members completed.          *)
(***************************************************************************)
Contains(s, pat) == IndexOf(s, pat) # 0

\* Whether value v is the outcome of member i's own processes.
ResultOfMember(v, i) ==
  /\ v.kind = "result"
  /\ v = members[i].outcome
  /\ v.stdout # <<>>
  /\ \A n \in 1..Len(v.stdout) : v.stdout[n][1] = i
  /\ members[i].handler # "scp" => v.child = <<i, 1>>
  /\ call.op = "run" =>
       procs[i][1].cmd = buildSSHCommand(Connections[i], call.command)
  /\ LET cmd == procs[i][IF members[i].handler = "scp" THEN 3 ELSE 1].cmd
     IN \A j \in 1..MaxConns :
          Contains(cmd, format(Connections[j].remote)) <=> j = i

AllMembersFulfilled == \A i \in 1..MaxConns : members[i].pc = "fulfilled"

\* C1: the aggregate is fulfilled exactly when Promise.all has taken the
\* success of every member; it then holds, at each index i, the result of
\* the i-th connection, and that is what the caller is handed.
C1_IndexAligned ==
  /\ agg.state = "fulfilled" <=>
       (call.op # "none" /\ AllMembersFulfilled /\ Observed = 1..MaxConns)
  /\ agg.state = "fulfilled" =>
       /\ Delivered.kind = "values"
       /\ Len(Delivered.values) = MaxConns
       /\ \A i \in 1..MaxConns : ResultOfMember(Delivered.values[i], i)
  /\ delivered.kind = "values" => delivered = Delivered

\* The second member's process exits first, and the caller has the values.
C1_Witness ==
  /\ delivered.kind = "values"
  /\ call.op = "run"
  /\ settled[1] = 2
  /\ observed[1] = 2
  /\ delivered.values[1].child = <<1, 1>>
  /\ delivered.values[2].child = <<2, 1>>

(***************************************************************************)
(* C2. In one staged copy the commands are started in the order archive,   *)
(* mkdir -p dest, scp transfer, remove archive on the src side, extract,   *)
(* remove archive on the dest side; a step is started only when the        *)
(* process of the step before it has exited, so no two steps of one copy   *)
(* run at the same time.                                                   *)
(***************************************************************************)
\* What a staged command does, read from its text.
StepKind(cmd, src, dest) ==
  CASE Contains(cmd, S_sp \o S_czf \o S_sp) -> "archive"
    [] Contains(cmd, S_mkdir \o S_sp \o S_p \o S_sp) -> "mkdir"
    [] Contains(cmd, S_scp \o S_sp) -> "transfer"
    [] Contains(cmd, S_sp \o S_xzf \o S_sp) -> "extract"
    [] Contains(cmd, S_cd \o S_sp \o dirname(src) \o S_and \o S_rm \o S_sp) -> "rmSource"
    [] Contains(cmd, S_cd \o S_sp \o dest \o S_and \o S_rm \o S_sp) -> "rmDest"
    [] OTHER -> "other"

StepOrder == <<"archive", "mkdir", "transfer", "rmSource", "extract", "rmDest">>

Staged(i) == members[i].handler = "scp"

Running(i) == {n \in 1..Len(procs[i]) : procs[i][n].state = "running"}

\* C2: the processes of a staged copy are the six steps in order, each
\* started after the one before it exited, at most one running.
C2_StagedStepsInSequence ==
  \A i \in 1..MaxConns :
    Staged(i) =>
      /\ Len(procs[i]) <= Len(StepOrder)
      /\ \A n \in 1..Len(procs[i]) :
           /\ StepKind(procs[i][n].cmd, call.src, call.dest) = StepOrder[n]
           /\ n > 1 => procs[i][n - 1].state = "exited"
      /\ Cardinality(Running(i)) <= 1

C2_Witness ==
  \E i \in 1..MaxConns :
    /\ Staged(i)
    /\ Len(procs[i]) = 6
    /\ \A n \in 1..6 : procs[i][n].state = "exited"
    /\ members[i].pc = "fulfilled"

(***************************************************************************)
(* C5. On every copy the rsync strategy is used only if the probe reports  *)
(* rsync available and the caller did not set useShim; in every other case *)
(* the staged strategy is used.                                            *)
(***************************************************************************)
\* C5: rsync is chosen iff the probe found it and useShim is not set.
C5_StrategySelection ==
  \A i \in 1..MaxConns :
    members[i].handler \in {"rsync", "scp"} =>
      (members[i].handler = "rsync"
         <=> (members[i].rsyncAvailable = "yes" /\ ~call.options.useShim))

(***************************************************************************)
(* C6. In a staged copy, when the process of step k fails, no step after k *)
(* is ever started, the copy fails with that error, and no command is run  *)
(* to undo the steps already completed.                                    *)
(***************************************************************************)
\* C6: a step that exited non-zero is the last process of its copy, only
\* the generated commands are ever started, and once exec has reported the
\* failure the copy is rejected with the error of that step or the callback
\* that rejects it is due.
C6_AbortOnFailure ==
  \A i \in 1..MaxConns :
    Staged(i) =>
      /\ LET cmds == ScpCommandsOf(i)
         IN \A n \in 1..Len(procs[i]) :
              procs[i][n].step = n /\ procs[i][n].cmd = cmds[n]
      /\ \A n \in 1..Len(procs[i]) :
           /\ procs[i][n].exit = "nonzero" =>
                /\ Len(procs[i]) = n
                /\ members[i].pc \in {"running", "rejected"}
                /\ members[i].returned \in {NoValue, ExecError(i, n)}
           /\ procs[i][n].state = "failed" =>
                \/ members[i].pc = "rejected" /\ members[i].outcome = ExecError(i, n)
                \/ members[i].pc = "running" /\ ENABLED (ReduceNext(i) \/ CopySettle(i))
      /\ members[i].pc = "rejected" =>
           /\ procs[i] # <<>>
           /\ procs[i][Len(procs[i])].state = "failed"

\* The transfer fails after the archive and the directory were made: both
\* are left behind.
C6_Witness ==
  \E i \in 1..MaxConns :
    /\ Staged(i)
    /\ Len(procs[i]) = 3
    /\ procs[i][1].state = "exited"
    /\ procs[i][2].state = "exited"
    /\ procs[i][3].state = "failed"
    /\ members[i].pc = "rejected"

(***************************************************************************)
(* C7. Every member operation is started before the pool waits on any of   *)
(* them; when a member operation fails the aggregate fails with that       *)
(* failure at once, the other members' operations are not cancelled, and   *)
(* none of their results reaches the caller.                               *)
(***************************************************************************)
Rejected == {i \in 1..MaxConns : members[i].pc = "rejected"}

\* The member whose failure Promise.all took first.
FirstRejected ==
  observed[CHOOSE n \in 1..Len(observed) :
             /\ observed[n] \in Rejected
             /\ \A m \in 1..(n - 1) : observed[m] \notin Rejected]

C7_AllStarted ==
  call.op # "none" => \A i \in 1..MaxConns : members[i].pc # "idle"

\* From the turn in which Promise.all takes a failure, whatever the other
\* members are doing, the aggregate is rejected with the first failure
\* taken; the caller is handed that error and no value. For a failed member
\* either that has happened or the callback that does it is due.
C7_FailsAtOnce ==
  /\ Observed \cap Rejected # {} =>
       /\ agg.state = "rejected"
       /\ agg.reason = members[FirstRejected].outcome
       /\ Delivered = [kind |-> "error", values |-> <<>>, error |-> agg.reason]
  /\ agg.state = "rejected" => delivered \in {NotDelivered, Delivered}
  /\ \A i \in Rejected :
       \/ agg.state = "rejected" /\ delivered.kind = "error"
       \/ ENABLED (PromiseAllThen(i) \/ Nodeify)

\* The step in which the aggregate fails touches no member and no process,
\* a failed aggregate never changes again, what the caller was handed never
\* changes, and no process is taken back or altered once it was reported.
C7_OthersUntouched ==
  /\ (agg.state = "pending" /\ agg'.state = "rejected") =>
       members' = members /\ procs' = procs
  /\ agg.state = "rejected" => agg' = agg
  /\ delivered # NotDelivered => delivered' = delivered
  /\ \A i \in 1..MaxConns : \A n \in 1..Len(procs[i]) :
       /\ Len(procs'[i]) >= Len(procs[i])
       /\ procs[i][n].state # "running" => procs'[i][n] = procs[i][n]

\* C7: all members are started, the first failure taken rejects the
\* aggregate with that error, other members are left alone and nothing else
\* is delivered afterwards.
C7_FailFast ==
  /\ [](C7_AllStarted /\ C7_FailsAtOnce)
  /\ [][C7_OthersUntouched]_vars

\* One member failed and the caller was handed its error while another
\* member was still running; that member then ran to completion.
C7_Witness ==
  /\ delivered.kind = "error"
  /\ Len(observed) >= 2
  /\ members[observed[1]].pc = "rejected"
  /\ members[observed[2]].pc = "fulfilled"
  /\ delivered.error = members[observed[1]].outcome
  /\ \E n \in 1..Len(procs[observed[2]]) : procs[observed[2]][n].state = "exited"

(***************************************************************************)
(* C11. The member operations of a fan-out share no mutable state: no      *)
(* member reads or writes a file that another member of the same fan-out   *)
(* writes or removes, so no member's outcome depends on the progress of    *)
(* another member.                                                         *)
(***************************************************************************)
\* The pairs of accesses in which one member writes or removes what another
\* member touches.
Conflicts ==
  {pair \in access \X access :
     /\ pair[1].member # pair[2].member
     /\ pair[1].resource = pair[2].resource
     /\ pair[1].mode \in {"write", "remove"}}

\* A process that failed because an archive it needed was not there.
FoundMissing == {a \in access : a.mode = "missing"}

\* C11: no two members conflict on a file, and no process of a member finds
\* the archive it needs gone.
C11_MembersIndependent == Conflicts = {} /\ FoundMissing = {}

====
